---- MODULE Spec2Model ----
(***************************************************************************)
(* Model of the lsmRack helper utilities:                                  *)
(*   - getWorldHalfExtents, validateRackConfig, debounce  (utils module)   *)
(*   - applyShadowToMesh, applyShadowSettings, updateShadowQuality,        *)
(*     applyCellHoverShadow, resetCellHoverShadow          (js/shadows.js) *)
(*                                                                         *)
(* Each helper has its own specification (SpecExtents, SpecValidate,       *)
(* SpecDebounce, SpecShadows); the variables of the other helpers stay at  *)
(* their idle values.                                                      *)
(*                                                                         *)
(* Numbers.  A JavaScript value is a tagged record.  A finite number is    *)
(* [t |-> "number", v |-> n] where n counts TENTHS (v = 15 is 1.5), NaN is *)
(* [t |-> "nan"].  Arithmetic is exact: widths and depths are whole units  *)
(* and the angles are taken from the grid q*(pi/2) + r with r one of 0,    *)
(* atan(3/4), atan(4/3), whose sine and cosine are 0, +-3/5, +-4/5, +-1,   *)
(* so every product and sum of getWorldHalfExtents is a whole number of    *)
(* tenths.  IEEE-754 rounding of Math.cos / Math.sin is not modelled.      *)
(***************************************************************************)
EXTENDS Integers, Sequences, FiniteSets

\* ------------------------------------------------------------------ bounds
MaxDim == 2          \* widths and depths range over -MaxDim..MaxDim units
MaxQuarter == 2      \* angles range over q*(pi/2) + r, q in -MaxQuarter..MaxQuarter
MaxCalls == 3        \* calls made to the debounced function
MaxWait == 2         \* debounce(func, wait) with wait in 0..MaxWait
MaxTime == 4         \* calls are made at clock values 0..MaxTime
MaxPending == 2      \* re-enable callbacks of updateShadowQuality pending at once

VARIABLES
  rack,      \* the THREE.Object3D handed to getWorldHalfExtents
  ext,       \* outcome of getWorldHalfExtents(rack), NoCall before the call
  other,     \* outcome of the call on the same rack turned by pi / mirrored
  config,    \* the argument handed to validateRackConfig
  verdict,   \* what validateRackConfig(config) returned, NoCall before the call
  wait,      \* debounce's wait
  now,       \* the clock
  timeout,   \* debounce's closure variable: the id setTimeout returned last
  timers,    \* the host's pending timers: records [id, due, args]
  nextId,    \* the id the next setTimeout returns
  history,   \* calls of the debounced function and invocations of func, in order
  shadow,    \* castShadow / receiveShadow of every object of the scene
  renderer,  \* renderer.shadowMap: enabled, type, needsUpdate
  lights,    \* mainLight, spotLight, fillLight, rimLight
  toggle,    \* the #shadow-toggle checkbox
  pending    \* re-enable callbacks updateShadowQuality has scheduled

extVars == <<rack, ext, other>>
valVars == <<config, verdict>>
debVars == <<wait, now, timeout, timers, nextId, history>>
shVars == <<shadow, renderer, lights, toggle, pending>>
vars == <<extVars, valVars, debVars, shVars>>

\* ---------------------------------------------------------- JS value model
Tenths == 2 * 5

Undef == [t |-> "undefined"]
NaN == [t |-> "nan"]
Num(n) == [t |-> "number", v |-> n]
\* a whole number of units
Units(k) == Num(k * Tenths)
\* an angle of the grid: q quarter turns plus the remainder r
Angle(q, r) == [t |-> "angle", q |-> q, r |-> r]

IsNum(x) == x.t = "number"

AbsInt(n) == IF n < 0 THEN -n ELSE n

\* x / 2 (ToNumber(undefined) is NaN; NaN / 2 is NaN)
JsHalf(x) == IF IsNum(x) THEN Num(x.v \div 2) ELSE NaN

\* a * b
JsMul(a, b) == IF IsNum(a) /\ IsNum(b) THEN Num((a.v * b.v) \div Tenths) ELSE NaN

\* a + b
JsAdd(a, b) == IF IsNum(a) /\ IsNum(b) THEN Num(a.v + b.v) ELSE NaN

\* Math.abs
MathAbs(x) == IF IsNum(x) THEN Num(AbsInt(x.v)) ELSE NaN

\* cosine and sine of the remainder r, in tenths
CosRem(r) == CASE r = "0" -> Tenths [] r = "a" -> 8 [] r = "b" -> 6
SinRem(r) == CASE r = "0" -> 0 [] r = "a" -> 6 [] r = "b" -> 8

\* Math.cos: cos(q*pi/2 + r) by the quarter-turn identities
MathCos(th) ==
  IF th.t # "angle" THEN NaN
  ELSE LET k == th.q % 4 IN
       CASE k = 0 -> Num(CosRem(th.r))
         [] k = 1 -> Num(-SinRem(th.r))
         [] k = 2 -> Num(-CosRem(th.r))
         [] k = 3 -> Num(SinRem(th.r))

\* Math.sin: sin(q*pi/2 + r)
MathSin(th) ==
  IF th.t # "angle" THEN NaN
  ELSE LET k == th.q % 4 IN
       CASE k = 0 -> Num(SinRem(th.r))
         [] k = 1 -> Num(CosRem(th.r))
         [] k = 2 -> Num(-SinRem(th.r))
         [] k = 3 -> Num(-CosRem(th.r))

\* ------------------------------------------------------ getWorldHalfExtents
Return(hX, hZ) == [kind |-> "return", halfX |-> hX, halfZ |-> hZ]
Throw == [kind |-> "throw", error |-> "TypeError"]
NoCall == [kind |-> "none"]

\* faulty variant: the absolute value is taken of nothing
getWorldHalfExtents_NoAbs(r) ==
  IF r.userData.t = "undefined" THEN Throw
  ELSE IF r.userData.config.t = "undefined" THEN Throw
  ELSE IF r.rotation.t = "undefined" THEN Throw
  ELSE LET hx == JsHalf(r.userData.config.width)
           hz == JsHalf(r.userData.config.depth)
           th == r.rotation.y
       IN Return(JsAdd(JsMul(MathCos(th), hx), JsMul(MathSin(th), hz)),
                 JsAdd(JsMul(MathSin(th), hx), JsMul(MathCos(th), hz)))

\* faulty variant: the absolute value is taken of the sine and cosine only
getWorldHalfExtents_AbsTrig(r) ==
  IF r.userData.t = "undefined" THEN Throw
  ELSE IF r.userData.config.t = "undefined" THEN Throw
  ELSE IF r.rotation.t = "undefined" THEN Throw
  ELSE LET hx == JsHalf(r.userData.config.width)
           hz == JsHalf(r.userData.config.depth)
           th == r.rotation.y
       IN Return(JsAdd(JsMul(MathAbs(MathCos(th)), hx), JsMul(MathAbs(MathSin(th)), hz)),
                 JsAdd(JsMul(MathAbs(MathSin(th)), hx), JsMul(MathAbs(MathCos(th)), hz)))

\* faulty variant: sine and cosine exchanged
getWorldHalfExtents_Swapped(r) ==
  IF r.userData.t = "undefined" THEN Throw
  ELSE IF r.userData.config.t = "undefined" THEN Throw
  ELSE IF r.rotation.t = "undefined" THEN Throw
  ELSE LET hx == JsHalf(r.userData.config.width)
           hz == JsHalf(r.userData.config.depth)
           th == r.rotation.y
       IN Return(JsAdd(MathAbs(JsMul(MathSin(th), hx)), MathAbs(JsMul(MathCos(th), hz))),
                 JsAdd(MathAbs(JsMul(MathCos(th), hx)), MathAbs(JsMul(MathSin(th), hz))))

\* faulty variant: a missing config or rotation is guarded and read as undefined
getWorldHalfExtents_Guarded(r) ==
  LET cfg == IF r.userData.t = "undefined" THEN Undef ELSE r.userData.config
      w == IF cfg.t = "undefined" THEN Undef ELSE cfg.width
      d == IF cfg.t = "undefined" THEN Undef ELSE cfg.depth
      th == IF r.rotation.t = "undefined" THEN Undef ELSE r.rotation.y
      hx == JsHalf(w)
      hz == JsHalf(d)
  IN Return(JsAdd(MathAbs(JsMul(MathCos(th), hx)), MathAbs(JsMul(MathSin(th), hz))),
            JsAdd(MathAbs(JsMul(MathSin(th), hx)), MathAbs(JsMul(MathCos(th), hz))))

\* getWorldHalfExtents(rack): reading a property of undefined throws a
\* TypeError (rack.userData.config.width, rack.rotation.y)
getWorldHalfExtents(r) ==
  IF r.userData.t = "undefined" THEN Throw
  ELSE IF r.userData.config.t = "undefined" THEN Throw
  ELSE IF r.rotation.t = "undefined" THEN Throw
  ELSE LET w == r.userData.config.width
           d == r.userData.config.depth
           th == r.rotation.y
           hx == JsHalf(w)
           hz == JsHalf(d)
           halfX == JsAdd(MathAbs(JsMul(MathCos(th), hx)), MathAbs(JsMul(MathSin(th), hz)))
           halfZ == JsAdd(MathAbs(JsMul(MathSin(th), hx)), MathAbs(JsMul(MathCos(th), hz)))
       IN Return(halfX, halfZ)

\* ------------------------------------------------------------ rack objects
Dims == {Units(k) : k \in -MaxDim..MaxDim}
Angles == {Angle(q, r) : q \in -MaxQuarter..MaxQuarter, r \in {"0", "a", "b"}}

Config(w, d) == [t |-> "object", width |-> w, depth |-> d]
UserData(c) == [t |-> "object", config |-> c]
Rotation(y) == [t |-> "object", y |-> y]
Rack(u, rot) == [userData |-> u, rotation |-> rot]

\* racks with a numeric footprint and rotation
NumericRacks ==
  {Rack(UserData(Config(w, d)), Rotation(th)) : w \in Dims, d \in Dims, th \in Angles}

\* racks with a field that is missing or not a number
MalformedRacks ==
  {Rack(u, rot) :
     u \in {Undef, UserData(Undef), UserData(Config(Undef, Units(1))),
            UserData(Config(Units(1), NaN)), UserData(Config(Units(2), Units(1)))},
     rot \in {Undef, Rotation(Undef), Rotation(NaN), Rotation(Angle(0, "a"))}}

Racks == NumericRacks \cup MalformedRacks

IsNumericRack(r) == r \in NumericRacks

\* the rack turned by pi about Y (two quarter turns)
TurnedByPi(r) ==
  [r EXCEPT !.rotation.y = Angle(r.rotation.y.q + 2, r.rotation.y.r)]

\* -(q*pi/2 + r) = (-q-1)*pi/2 + (pi/2 - r) for r # 0
NegAngle(th) ==
  CASE th.r = "0" -> Angle(-th.q, "0")
    [] th.r = "a" -> Angle(-th.q - 1, "b")
    [] th.r = "b" -> Angle(-th.q - 1, "a")

\* the rack with its Y rotation negated
Mirrored(r) == [r EXCEPT !.rotation.y = NegAngle(r.rotation.y)]

\* the rack with the absolute values of its width and depth
AbsFootprint(r) ==
  [r EXCEPT !.userData.config.width = MathAbs(r.userData.config.width),
            !.userData.config.depth = MathAbs(r.userData.config.depth)]

NoOther == [rel |-> "none", out |-> NoCall]

\* ------------------------------------------------------------------- scene
\* one object for every case applyShadowToMesh tells apart
Mesh(name, isCell, isCellContent) ==
  [isMesh |-> TRUE, name |-> name, isCell |-> isCell, isCellContent |-> isCellContent]
Group(isCell) ==
  [isMesh |-> FALSE, name |-> "", isCell |-> isCell, isCellContent |-> FALSE]

SceneObjects ==
  {"pillar", "plate", "shelf", "floor", "cell", "cellBox", "shelfCell",
   "content", "pallet", "group", "cellGroup"}

Scene ==
  [o \in SceneObjects |->
     CASE o = "pillar" -> Mesh("pillarStructure", FALSE, FALSE)
       [] o = "plate" -> Mesh("plateStructure", FALSE, FALSE)
       [] o = "shelf" -> Mesh("shelfStructure", FALSE, FALSE)
       [] o = "floor" -> Mesh("", FALSE, FALSE)
       [] o = "cell" -> Mesh("", TRUE, FALSE)
       [] o = "cellBox" -> Mesh("", TRUE, TRUE)
       [] o = "shelfCell" -> Mesh("shelfStructure", TRUE, FALSE)
       [] o = "content" -> Mesh("", FALSE, TRUE)
       [] o = "pallet" -> Mesh("", FALSE, FALSE)
       [] o = "group" -> Group(FALSE)
       [] o = "cellGroup" -> Group(TRUE)]

FloorMesh == "floor"
Flags(c, r) == [castShadow |-> c, receiveShadow |-> r]
LightNames == {"mainLight", "spotLight", "fillLight", "rimLight"}

ShadowsIdle ==
  /\ shadow = [o \in SceneObjects |-> Flags(FALSE, FALSE)]
  /\ renderer = [enabled |-> FALSE, type |-> "PCFShadowMap", needsUpdate |-> FALSE]
  /\ lights = [l \in LightNames |-> [present |-> TRUE, castShadow |-> FALSE, mapSize |-> 512]]
  /\ toggle = [present |-> FALSE, checked |-> FALSE]
  /\ pending = 0

ExtentsIdle ==
  /\ rack = Rack(UserData(Config(Units(1), Units(1))), Rotation(Angle(0, "0")))
  /\ ext = NoCall
  /\ other = NoOther

ValidateIdle ==
  /\ config = Undef
  /\ verdict = NoCall

DebounceIdle ==
  /\ wait = 0
  /\ now = 0
  /\ timeout = 0
  /\ timers = {}
  /\ nextId = 1
  /\ history = <<>>

InitExtents ==
  /\ rack \in Racks
  /\ ext = NoCall
  /\ other = NoOther
  /\ ValidateIdle
  /\ DebounceIdle
  /\ ShadowsIdle

\* const e = getWorldHalfExtents(rack)
CallExtents ==
  /\ ext = NoCall
  /\ ext' = getWorldHalfExtents(rack)
  /\ UNCHANGED <<rack, other, valVars, debVars, shVars>>

\* the same rack, rotation.y += Math.PI, measured again
CallTurnedByPi ==
  /\ ext # NoCall
  /\ other = NoOther
  /\ IsNumericRack(rack)
  /\ other' = [rel |-> "pi", out |-> getWorldHalfExtents(TurnedByPi(rack))]
  /\ UNCHANGED <<rack, ext, valVars, debVars, shVars>>

\* the same rack, rotation.y negated, measured again
CallMirrored ==
  /\ ext # NoCall
  /\ other = NoOther
  /\ IsNumericRack(rack)
  /\ other' = [rel |-> "neg", out |-> getWorldHalfExtents(Mirrored(rack))]
  /\ UNCHANGED <<rack, ext, valVars, debVars, shVars>>

\* the same rack with |width| and |depth|, measured again
CallAbsFootprint ==
  /\ ext # NoCall
  /\ other = NoOther
  /\ IsNumericRack(rack)
  /\ other' = [rel |-> "abs", out |-> getWorldHalfExtents(AbsFootprint(rack))]
  /\ UNCHANGED <<rack, ext, valVars, debVars, shVars>>

NextExtents == CallExtents \/ CallTurnedByPi \/ CallMirrored \/ CallAbsFootprint

SpecExtents == InitExtents /\ [][NextExtents]_vars

\* footprint and rotation of the rack under test
W == rack.userData.config.width
D == rack.userData.config.depth
Theta == rack.rotation.y
Called == ext # NoCall
NonNegFootprint == W.v >= 0 /\ D.v >= 0

\* C1: for a footprint with w >= 0 and d >= 0, at rotation 0 or any even
\* multiple of pi/2 the result is (w/2, d/2), and at any odd multiple of pi/2
\* it is (d/2, w/2).
C1_QuarterTurns ==
  (Called /\ IsNumericRack(rack) /\ NonNegFootprint /\ Theta.r = "0") =>
    IF Theta.q % 2 = 0
      THEN ext = Return(Num(W.v \div 2), Num(D.v \div 2))
      ELSE ext = Return(Num(D.v \div 2), Num(W.v \div 2))

\* width 2, depth 1 at -pi/2 (cosine 0, sine -1): the half-extents are swapped
C1_Witness ==
  /\ Called /\ IsNumericRack(rack)
  /\ W = Units(2) /\ D = Units(1) /\ Theta = Angle(-1, "0")
  /\ ext = Return(Num(5), Num(10))

\* C2: for every rotation and every non-negative width and depth, halfX >= 0
\* and halfZ >= 0.
C2_NonNegative ==
  (Called /\ IsNumericRack(rack) /\ NonNegFootprint) =>
    /\ ext.kind = "return"
    /\ IsNum(ext.halfX) /\ ext.halfX.v >= 0
    /\ IsNum(ext.halfZ) /\ ext.halfZ.v >= 0

\* an angle in the third quadrant (sine and cosine both negative), result > 0
C2_Witness ==
  /\ Called /\ IsNumericRack(rack)
  /\ W = Units(2) /\ D = Units(1) /\ Theta = Angle(2, "a")
  /\ MathCos(Theta).v < 0 /\ MathSin(Theta).v < 0
  /\ ext.halfX.v > 0 /\ ext.halfZ.v > 0

\* C3: the result for rotation theta + pi is the result for rotation theta.
C3_Periodicity ==
  (Called /\ other.rel = "pi") => other.out = ext

C3_Witness ==
  /\ Called /\ other.rel = "pi"
  /\ W = Units(2) /\ D = Units(1) /\ Theta = Angle(1, "a")
  /\ other.out.kind = "return" /\ other.out.halfX # other.out.halfZ

\* C4: the result for rotation -theta is the result for rotation theta.
C4_Symmetry ==
  (Called /\ other.rel = "neg") => other.out = ext

C4_Witness ==
  /\ Called /\ other.rel = "neg"
  /\ W = Units(2) /\ D = Units(1) /\ Theta = Angle(0, "a")
  /\ other.out.kind = "return" /\ other.out.halfX # other.out.halfZ

HasConfigAndRotation(r) ==
  /\ r.userData.t = "object"
  /\ r.userData.config.t = "object"
  /\ r.rotation.t = "object"

Null == [t |-> "null"]
Str(x) == [t |-> "string", s |-> x]
Bool(b) == [t |-> "boolean", b |-> b]
Obj(f) == [t |-> "object", f |-> f]

\* ToBoolean
JsTruthy(x) ==
  CASE x.t = "undefined" -> FALSE
    [] x.t = "null" -> FALSE
    [] x.t = "nan" -> FALSE
    [] x.t = "number" -> x.v # 0
    [] x.t = "string" -> x.s # ""
    [] x.t = "boolean" -> x.b
    [] x.t = "object" -> TRUE

\* typeof
TypeOf(x) ==
  CASE x.t = "undefined" -> "undefined"
    [] x.t = "null" -> "object"
    [] x.t = "nan" -> "number"
    [] x.t = "number" -> "number"
    [] x.t = "string" -> "string"
    [] x.t = "boolean" -> "boolean"
    [] x.t = "object" -> "object"

\* x.key for a truthy x: a primitive has none of the config keys
Get(x, key) == IF x.t = "object" THEN x.f[key] ELSE Undef

\* validateRackConfig(config): a && b && ... yields its first falsy operand
validateRackConfig(c) ==
  IF ~JsTruthy(c) THEN c
  ELSE Bool(/\ TypeOf(Get(c, "rackId")) = "string"
            /\ TypeOf(Get(c, "width")) = "number"
            /\ TypeOf(Get(c, "depth")) = "number"
            /\ TypeOf(Get(c, "height")) = "number"
            /\ TypeOf(Get(c, "levels")) = "number"
            /\ TypeOf(Get(c, "cells")) = "number")

ConfigKeys == {"rackId", "width", "depth", "height", "levels", "cells"}
FieldValues == {Undef, Units(1), Str("A")}
Primitives ==
  {Null, Undef, Num(0), NaN, Str(""), Str("A"), Units(1), Bool(FALSE), Bool(TRUE)}
Configs == Primitives \cup {Obj(f) : f \in [ConfigKeys -> FieldValues]}
                      \cup {Obj([k \in ConfigKeys |-> IF k = "rackId" THEN Str("") ELSE NaN])}

InitValidate ==
  /\ config \in Configs
  /\ verdict = NoCall
  /\ ExtentsIdle
  /\ DebounceIdle
  /\ ShadowsIdle

\* const ok = validateRackConfig(config)
CallValidate ==
  /\ verdict = NoCall
  /\ verdict' = [kind |-> "return", value |-> validateRackConfig(config)]
  /\ UNCHANGED <<config, extVars, debVars, shVars>>

NextValidate == CallValidate

SpecValidate == InitValidate /\ [][NextValidate]_vars

\* config is an object whose rackId is a string and whose width, depth,
\* height, levels and cells are numbers
WellFormed(c) ==
  /\ c.t = "object"
  /\ TypeOf(c.f["rackId"]) = "string"
  /\ \A k \in ConfigKeys \ {"rackId"} : TypeOf(c.f[k]) = "number"

\* C7: validateRackConfig returns a boolean for every input: true exactly
\* when config is an object whose rackId is a string and whose width, depth,
\* height, levels and cells are all numbers, and false in every other case,
\* null, undefined, 0 and the empty string included.
C7_ReturnsBoolean ==
  verdict # NoCall => verdict.value = Bool(WellFormed(config))

\* ------------------------------------------------------------------ debounce
\* timer ids start at 1; timeout = 0 stands for the undefined of "let timeout;"
Args == {"a", "b"}

\* clearTimeout(id): an id that names no pending timer is ignored
ClearTimeout(ts, id) == {t \in ts : t.id # id}

\* setTimeout(later, wait): a timer that runs later with these args, not before due
SetTimeout(ts, id, due, a) == ts \cup {[id |-> id, due |-> due, args |-> a]}

\* faulty variant: executedFunction without its clearTimeout(timeout)
executedFunction_NoClear(ts, tmo, id, due, a) == SetTimeout(ts, id, due, a)

\* executedFunction(...args): clearTimeout(timeout); timeout = setTimeout(later, wait)
executedFunction(ts, tmo, id, due, a) == SetTimeout(ClearTimeout(ts, tmo), id, due, a)

InitDebounce ==
  /\ wait \in 0..MaxWait
  /\ now = 0
  /\ timeout = 0
  /\ timers = {}
  /\ nextId = 1
  /\ history = <<>>
  /\ ExtentsIdle
  /\ ValidateIdle
  /\ ShadowsIdle

\* the debounced function is called with args a
DebouncedCall(a) ==
  /\ nextId <= MaxCalls
  /\ now <= MaxTime
  /\ timers' = executedFunction(timers, timeout, nextId, now + wait, a)
  /\ timeout' = nextId
  /\ nextId' = nextId + 1
  /\ history' = Append(history, [ev |-> "call", args |-> a, at |-> now])
  /\ UNCHANGED <<wait, now, extVars, valVars, shVars>>

\* the host runs a due timer: later() is clearTimeout(timeout); func(...args)
TimerFires(t) ==
  /\ t \in timers
  /\ now >= t.due
  /\ timers' = ClearTimeout(timers \ {t}, timeout)
  /\ history' = Append(history, [ev |-> "invoke", args |-> t.args, at |-> now])
  /\ UNCHANGED <<wait, now, timeout, nextId, extVars, valVars, shVars>>

\* time passes; the clock stops once no call can follow and nothing is pending
Tick ==
  /\ now < MaxTime \/ \E t \in timers : t.due > now
  /\ now' = now + 1
  /\ UNCHANGED <<wait, timeout, timers, nextId, history, extVars, valVars, shVars>>

NextDebounce ==
  \/ \E a \in Args : DebouncedCall(a)
  \/ \E t \in timers : TimerFires(t)
  \/ Tick

SpecDebounce == InitDebounce /\ [][NextDebounce]_vars

\* the host's clock advances and a due timer is run
SpecDebounceFair ==
  /\ SpecDebounce
  /\ WF_vars(Tick)
  /\ WF_vars(\E t \in timers : TimerFires(t))

\* index of the last call before position j of the history, 0 if none
LastCallBefore(j) ==
  LET S == {i \in 1..(j - 1) : history[i].ev = "call"}
  IN IF S = {} THEN 0 ELSE CHOOSE i \in S : \A k \in S : k <= i

Invocations == {j \in 1..Len(history) : history[j].ev = "invoke"}

\* the run of calls that ends at the end of the history is still open
RunOpen == history # <<>> /\ history[Len(history)].ev = "call"

DebounceSafety ==
  /\ Cardinality(timers) <= 1
  /\ timers # {} <=> RunOpen
  /\ \A j \in Invocations :
       LET i == LastCallBefore(j) IN
         /\ i > 0
         /\ history[j].at - history[i].at >= wait
         /\ history[j].args = history[i].args
         /\ \A k \in (i + 1)..(j - 1) : history[k].ev # "invoke"

\* C8: at most one timer is pending; func is not invoked while a call made
\* less than wait ago is outstanding; every run of calls that no expiry
\* interrupts gets exactly one invocation of func, with the arguments of the
\* run's last call; once calls stop, func is eventually invoked.
C8_Debounce ==
  /\ []DebounceSafety
  /\ RunOpen ~> ~RunOpen

\* three calls in a row, then one invocation with the last call's arguments
C8_Witness ==
  /\ Len(history) = 4
  /\ history[1].ev = "call" /\ history[2].ev = "call" /\ history[3].ev = "call"
  /\ history[1].args = "a" /\ history[3].args = "b"
  /\ history[4] = [ev |-> "invoke", args |-> "b", at |-> history[3].at + wait]
  /\ wait > 0
  /\ timers = {}

\* ------------------------------------------------------------------ shadows
\* faulty variant: the isCell branch is missing, a cell is treated as any other mesh
applyShadowToMesh_NoCellBranch(o, f, enabled, floorMesh) ==
  IF ~Scene[o].isMesh THEN f
  ELSE IF Scene[o].name = "pillarStructure" THEN Flags(enabled, FALSE)
  ELSE IF Scene[o].name = "plateStructure" THEN Flags(FALSE, enabled)
  ELSE IF Scene[o].name = "shelfStructure" THEN Flags(FALSE, enabled)
  ELSE IF o = floorMesh THEN Flags(FALSE, enabled)
  ELSE IF Scene[o].isCellContent THEN Flags(enabled, FALSE)
  ELSE Flags(enabled, enabled)

\* applyShadowToMesh(obj, enabled, floorMesh): the flags of obj afterwards
applyShadowToMesh(o, f, enabled, floorMesh) ==
  IF ~Scene[o].isMesh THEN f
  ELSE IF Scene[o].name = "pillarStructure" THEN Flags(enabled, FALSE)
  ELSE IF Scene[o].name = "plateStructure" THEN Flags(FALSE, enabled)
  ELSE IF Scene[o].name = "shelfStructure" THEN Flags(FALSE, enabled)
  ELSE IF o = floorMesh THEN Flags(FALSE, enabled)
  ELSE IF Scene[o].isCell THEN Flags(FALSE, FALSE)
  ELSE IF Scene[o].isCellContent THEN Flags(enabled, FALSE)
  ELSE Flags(enabled, enabled)

\* scene.traverse((obj) => applyShadowToMesh(obj, enabled, floorMesh))
Traverse(sh, enabled) ==
  [o \in SceneObjects |-> applyShadowToMesh(o, sh[o], enabled, FloorMesh)]

\* mainLight.castShadow = e; if (spotLight) spotLight.castShadow = e; ...
\* (mainLight is written without a null check)
SetLightsCastShadow(ls, e) ==
  [l \in LightNames |->
     IF ls[l].present THEN [ls[l] EXCEPT !.castShadow = e] ELSE ls[l]]

\* getShadowQualitySettings(quality, THREE)
getShadowQualitySettings(quality) ==
  CASE quality = "low" -> [mapType |-> "BasicShadowMap", mapSize |-> 1024]
    [] quality = "medium" -> [mapType |-> "PCFShadowMap", mapSize |-> 2048]
    [] quality = "high" -> [mapType |-> "PCFSoftShadowMap", mapSize |-> 4096]
    [] OTHER -> [mapType |-> "PCFShadowMap", mapSize |-> 2048]

\* updateLightShadowMapSize(light, mapSize)
updateLightShadowMapSize(light, mapSize) ==
  IF light.present THEN [light EXCEPT !.mapSize = mapSize] ELSE light

Qualities == {"low", "medium", "high", "ultra"}

\* the objects the hover handlers are handed: the cell meshes
CellMeshes == {o \in SceneObjects : Scene[o].isMesh /\ Scene[o].isCell}
NonMeshes == {o \in SceneObjects : ~Scene[o].isMesh}

InitShadows ==
  /\ \E g \in [NonMeshes -> [castShadow : BOOLEAN, receiveShadow : BOOLEAN]] :
       shadow = [o \in SceneObjects |->
                   IF o \in NonMeshes THEN g[o] ELSE Flags(FALSE, FALSE)]
  /\ renderer = [enabled |-> FALSE, type |-> "PCFShadowMap", needsUpdate |-> FALSE]
  /\ \E p \in [LightNames \ {"mainLight"} -> BOOLEAN] :
       lights = [l \in LightNames |->
                   [present |-> IF l = "mainLight" THEN TRUE ELSE p[l],
                    castShadow |-> FALSE, mapSize |-> 512]]
  /\ toggle \in [present : BOOLEAN, checked : {FALSE}]
  /\ pending = 0
  /\ ExtentsIdle
  /\ ValidateIdle
  /\ DebounceIdle

\* applyShadowSettings(enabled, scene, renderer, lights, floorMesh)
ApplyShadowSettings(enabled) ==
  /\ renderer' = [renderer EXCEPT !.enabled = enabled]
  /\ lights' = SetLightsCastShadow(lights, enabled)
  /\ shadow' = Traverse(shadow, enabled)
  /\ UNCHANGED <<toggle, pending, extVars, valVars, debVars>>

\* the checkbox is flipped: its change listener calls applyShadowSettings
ToggleChange(checked) ==
  /\ toggle.present
  /\ toggle' = [toggle EXCEPT !.checked = checked]
  /\ renderer' = [renderer EXCEPT !.enabled = checked]
  /\ lights' = SetLightsCastShadow(lights, checked)
  /\ shadow' = Traverse(shadow, checked)
  /\ UNCHANGED <<pending, extVars, valVars, debVars>>

\* updateShadowQuality(quality, renderer, lights, scene, floorMesh, THREE)
UpdateShadowQuality(quality) ==
  LET q == getShadowQualitySettings(quality)
      reset == toggle.present /\ toggle.checked
  IN /\ reset => pending < MaxPending
     /\ lights' = [l \in LightNames |-> updateLightShadowMapSize(lights[l], q.mapSize)]
     /\ IF reset
          THEN /\ renderer' = [renderer EXCEPT !.type = q.mapType, !.enabled = FALSE]
               /\ pending' = pending + 1
          ELSE /\ renderer' = [renderer EXCEPT !.type = q.mapType, !.needsUpdate = TRUE]
               /\ pending' = pending
     /\ UNCHANGED <<shadow, toggle, extVars, valVars, debVars>>

\* the setTimeout callback of updateShadowQuality
ReenableShadows ==
  /\ pending > 0
  /\ pending' = pending - 1
  /\ renderer' = [renderer EXCEPT !.enabled = TRUE, !.needsUpdate = TRUE]
  /\ shadow' = Traverse(shadow, TRUE)
  /\ lights' = SetLightsCastShadow(lights, TRUE)
  /\ UNCHANGED <<toggle, extVars, valVars, debVars>>

\* applyCellHoverShadow(cell)
ApplyCellHoverShadow(cell) ==
  /\ shadow' = [shadow EXCEPT ![cell] = Flags(FALSE, FALSE)]
  /\ UNCHANGED <<renderer, lights, toggle, pending, extVars, valVars, debVars>>

\* resetCellHoverShadow(cell)
ResetCellHoverShadow(cell) ==
  /\ shadow' = [shadow EXCEPT ![cell] = Flags(FALSE, FALSE)]
  /\ UNCHANGED <<renderer, lights, toggle, pending, extVars, valVars, debVars>>

NextShadows ==
  \/ \E e \in BOOLEAN : ApplyShadowSettings(e)
  \/ \E e \in BOOLEAN : ToggleChange(e)
  \/ \E q \in Qualities : UpdateShadowQuality(q)
  \/ ReenableShadows
  \/ \E c \in CellMeshes : ApplyCellHoverShadow(c)
  \/ \E c \in CellMeshes : ResetCellHoverShadow(c)

SpecShadows == InitShadows /\ [][NextShadows]_vars

StructureNames == {"pillarStructure", "plateStructure", "shelfStructure"}

\* the transparent cell meshes: userData.isCell, not the floor, not a structure
TransparentCells ==
  {o \in SceneObjects :
     /\ Scene[o].isMesh /\ Scene[o].isCell
     /\ o # FloorMesh /\ Scene[o].name \notin StructureNames}

\* C9: after any sequence of applyShadowSettings, updateShadowQuality and its
\* delayed callback, applyCellHoverShadow and resetCellHoverShadow, every
\* transparent cell mesh has castShadow = false and receiveShadow = false,
\* and no step changes the shadow flags of an object that is not a mesh.
C9_CellsNeverShadow ==
  /\ [](\A o \in TransparentCells : shadow[o] = Flags(FALSE, FALSE))
  /\ [][\A o \in NonMeshes : shadow'[o] = shadow[o]]_vars

\* shadows were re-enabled by the delayed callback: the pallet casts and
\* receives, the cells do neither, the groups kept flags no branch assigns
C9_Witness ==
  /\ renderer.enabled /\ renderer.needsUpdate /\ pending = 0
  /\ shadow["pallet"] = Flags(TRUE, TRUE)
  /\ shadow["content"] = Flags(TRUE, FALSE)
  /\ shadow["cell"] = Flags(FALSE, FALSE)
  /\ shadow["cellBox"] = Flags(FALSE, FALSE)
  /\ shadow["cellGroup"] = Flags(TRUE, TRUE)
  /\ shadow["group"] = Flags(FALSE, TRUE)

====
